---- MODULE Spec2Model ----
(***************************************************************************)
(* A model of the crane modal editor (src/usr/bin/crane.py, class Editor). *)
(*                                                                         *)
(* Text is modelled as sequences of one-character strings: a line is a     *)
(* sequence of characters, the document `lines` a sequence of lines, a     *)
(* file's content a sequence of characters that may hold "\n".             *)
(* Python's None is the empty sequence (None and '' are both falsy where   *)
(* the code tests them).  Keys are strings: a printable key is its         *)
(* character; ESC is '\x1b', DEL is '\x7f' (both of Python type str);      *)
(* KEY_BACKSPACE is curses.KEY_BACKSPACE, an int in Python.                *)
(* Status messages are modelled by the name of the message format.         *)
(***************************************************************************)
EXTENDS Integers, Sequences, FiniteSets, TLC

\* ------------------------------------------------------------------ bounds
\* the lines of the document and their characters, counted together
MaxSize == 2
\* the snapshots on the undo and the redo stack, counted together
MaxHist == 2

\* ------------------------------------------------------- program constants
\* push_undo keeps at most this many snapshots (crane.py line 97)
HistoryLimit == 100

None == <<>>
ESC == "ESC"
DEL == "DEL"
KEY_BACKSPACE == "KEY_BACKSPACE"
NL == "\n"

\* isinstance(key, str): every key get_wch returns is a str except the
\* curses key codes, which are ints
IsStr(key) == key # KEY_BACKSPACE

\* characters str.strip() and str.split() treat as whitespace
Whitespace == {" ", NL}

Min(a, b) == IF a < b THEN a ELSE b

\* ------------------------------------------------------- string functions
IsPrefix(p, s) == Len(p) <= Len(s) /\ SubSeq(s, 1, Len(p)) = p

\* str.startswith
StartsWith(s, p) == IsPrefix(p, s)

RECURSIVE LStrip(_)
LStrip(s) == IF s # <<>> /\ s[1] \in Whitespace THEN LStrip(Tail(s)) ELSE s

RECURSIVE RStrip(_)
RStrip(s) ==
    IF s # <<>> /\ s[Len(s)] \in Whitespace
    THEN RStrip(SubSeq(s, 1, Len(s) - 1))
    ELSE s

\* str.strip()
Strip(s) == RStrip(LStrip(s))

\* str.split(): the maximal runs of non-whitespace characters
RECURSIVE SplitFrom(_, _)
SplitFrom(s, cur) ==
    IF s = <<>>
    THEN IF cur = <<>> THEN <<>> ELSE <<cur>>
    ELSE IF s[1] \in Whitespace
         THEN IF cur = <<>>
              THEN SplitFrom(Tail(s), <<>>)
              ELSE <<cur>> \o SplitFrom(Tail(s), <<>>)
         ELSE SplitFrom(Tail(s), Append(cur, s[1]))

Split(s) == SplitFrom(s, <<>>)

\* str.find(term): the 0-based index of the first occurrence, -1 if none
RECURSIVE FindFrom(_, _, _)
FindFrom(l, term, i) ==
    IF i + Len(term) > Len(l)
    THEN -1
    ELSE IF SubSeq(l, i + 1, i + Len(term)) = term
         THEN i
         ELSE FindFrom(l, term, i + 1)

Find(l, term) == FindFrom(l, term, 0)

\* str.replace(old, new): every non-overlapping occurrence, left to right;
\* an empty old matches before every character and at the end
RECURSIVE ReplaceNonEmpty(_, _, _)
ReplaceNonEmpty(l, old, new) ==
    IF Len(l) < Len(old)
    THEN l
    ELSE IF SubSeq(l, 1, Len(old)) = old
         THEN new \o ReplaceNonEmpty(SubSeq(l, Len(old) + 1, Len(l)), old, new)
         ELSE <<l[1]>> \o ReplaceNonEmpty(Tail(l), old, new)

RECURSIVE Intersperse(_, _)
Intersperse(l, new) ==
    IF l = <<>> THEN new ELSE new \o <<l[1]>> \o Intersperse(Tail(l), new)

Replace(l, old, new) ==
    IF old = <<>> THEN Intersperse(l, new) ELSE ReplaceNonEmpty(l, old, new)

\* str.split(sep, 1): one piece if sep does not occur, else two
SplitOnce(s, sep) ==
    LET i == Find(s, <<sep>>)
    IN IF i = -1
       THEN <<s>>
       ELSE <<SubSeq(s, 1, i), SubSeq(s, i + 2, Len(s))>>

\* str.splitlines(): pieces between line breaks, no empty last piece
RECURSIVE SplitLinesFrom(_, _)
SplitLinesFrom(s, cur) ==
    IF s = <<>>
    THEN IF cur = <<>> THEN <<>> ELSE <<cur>>
    ELSE IF s[1] = NL
         THEN <<cur>> \o SplitLinesFrom(Tail(s), <<>>)
         ELSE SplitLinesFrom(Tail(s), Append(cur, s[1]))

SplitLines(s) == SplitLinesFrom(s, <<>>)

\* '\n'.join(lines)
RECURSIVE JoinLines(_)
JoinLines(ls) ==
    IF ls = <<>> THEN <<>>
    ELSE IF Len(ls) = 1 THEN ls[1]
    ELSE ls[1] \o <<NL>> \o JoinLines(Tail(ls))


\* s[a:b] for 0 <= a, 0 <= b: indices past the end are clamped
Slice(s, a, b) == SubSeq(s, Min(a, Len(s)) + 1, Min(b, Len(s)))

\* s[a:]
SliceFrom(s, a) == SubSeq(s, Min(a, Len(s)) + 1, Len(s))

\* ------------------------------------------------------------------ state
VARIABLES
    lines,              \* self.lines: the document
    mode,               \* self.mode: "NORMAL", "INSERT", "VISUAL", "CMD"
    cursor_y,           \* self.cursor_y
    cursor_x,           \* self.cursor_x
    vis_start,          \* self.vis_start: None or <<row, column>>
    cmd_buffer,         \* self.cmd_buffer
    fname,              \* self.fname: None or a path
    undo_stack,         \* self.undo_stack: snapshots, newest last
    redo_stack,         \* self.redo_stack: snapshots, newest last
    status_msg,         \* self.status_msg, as left by the last handler
    syntax_enabled,     \* self.syntax_enabled
    show_line_numbers,  \* self.show_line_numbers
    fs,                 \* the files the editor opens: path -> [kind, data]
    running,            \* FALSE once sys.exit has been called
    base_doc,           \* history: the document after construction
    session,            \* history: "mutating", "undoing" or "void"
    rt_phase,           \* history: "none", "undoing" or "redoing"
    rt_latest,          \* history: the document when the full undo began
    trail,              \* history: the last two keys and the states they met
    typing,             \* history: the insert session begun by the last 'i'
    saved               \* history: the last successful save

edvars == <<lines, mode, cursor_y, cursor_x, vis_start, cmd_buffer, fname,
            undo_stack, redo_stack, status_msg, syntax_enabled,
            show_line_numbers, fs, running>>

histvars == <<base_doc, session, rt_phase, rt_latest>>

stepvars == <<trail, typing, saved>>

vars == <<lines, mode, cursor_y, cursor_x, vis_start, cmd_buffer, fname,
          undo_stack, redo_stack, status_msg, syntax_enabled,
          show_line_numbers, fs, running,
          base_doc, session, rt_phase, rt_latest,
          trail, typing, saved>>

\* The editor as one value.  A handler is entered after draw(), which has
\* displayed and cleared the status message (crane.py lines 160-161).
Ed ==
    [lines |-> lines, mode |-> mode, cursor_y |-> cursor_y,
     cursor_x |-> cursor_x, vis_start |-> vis_start,
     cmd_buffer |-> cmd_buffer, fname |-> fname,
     undo_stack |-> undo_stack, redo_stack |-> redo_stack,
     status_msg |-> "", syntax_enabled |-> syntax_enabled,
     show_line_numbers |-> show_line_numbers, fs |-> fs,
     running |-> running]

Set(e) ==
    /\ lines' = e.lines
    /\ mode' = e.mode
    /\ cursor_y' = e.cursor_y
    /\ cursor_x' = e.cursor_x
    /\ vis_start' = e.vis_start
    /\ cmd_buffer' = e.cmd_buffer
    /\ fname' = e.fname
    /\ undo_stack' = e.undo_stack
    /\ redo_stack' = e.redo_stack
    /\ status_msg' = e.status_msg
    /\ syntax_enabled' = e.syntax_enabled
    /\ show_line_numbers' = e.show_line_numbers
    /\ fs' = e.fs
    /\ running' = e.running

\* ------------------------------------------------------------ file system
\* A path names a readable and writable regular file ("file"), a regular
\* file whose open() raises PermissionError ("denied"), or nothing
\* ("absent"), the state of every path the file system does not list.
FileKind(f, path) == IF path \in DOMAIN f THEN f[path].kind ELSE "absent"

\* os.path.isfile
IsFile(f, path) == FileKind(f, path) \in {"file", "denied"}

\* open(path) for reading succeeds
CanRead(f, path) == FileKind(f, path) = "file"

\* open(path, 'w') succeeds: it creates an absent file
CanWrite(f, path) == FileKind(f, path) \in {"file", "absent"}

WriteFile(f, path, data) ==
    [p \in DOMAIN f \cup {path} |->
        IF p = path THEN [kind |-> "file", data |-> data] ELSE f[p]]

\* the lines load_file leaves for a file's content
LoadLinesNoDefault(data) == SplitLines(data)

LoadLines(data) ==
    IF SplitLines(data) = <<>> THEN <<<<>>>> ELSE SplitLines(data)

\* load_file raises: the open() of an existing file fails
load_raises(e) ==
    e.fname # None /\ IsFile(e.fs, e.fname) /\ ~CanRead(e.fs, e.fname)

load_file(e) ==
    IF e.fname # None /\ IsFile(e.fs, e.fname)
    THEN [e EXCEPT !.lines = LoadLines(e.fs[e.fname].data)]
    ELSE [e EXCEPT !.lines = <<<<>>>>]

save_file(e, arg) ==
    LET target == IF arg # None THEN arg ELSE e.fname
    IN IF target # None
       THEN IF CanWrite(e.fs, target)
            THEN [e EXCEPT !.fs = WriteFile(e.fs, target, JoinLines(e.lines)),
                           !.status_msg = "Saved to",
                           !.fname = target]
            ELSE [e EXCEPT !.status_msg = "Save failed"]
       ELSE [e EXCEPT !.status_msg = "No filename specified"]

\* ---------------------------------------------------------------- history
push_undo(e) ==
    LET pushed == Append(e.undo_stack, e.lines)
    IN [e EXCEPT !.undo_stack =
            IF Len(pushed) > HistoryLimit THEN Tail(pushed) ELSE pushed]

undo(e) ==
    IF e.undo_stack # <<>>
    THEN LET doc == e.undo_stack[Len(e.undo_stack)]
             y == Min(e.cursor_y, Len(doc) - 1)
         IN [e EXCEPT !.redo_stack = Append(@, e.lines),
                      !.lines = doc,
                      !.undo_stack = SubSeq(@, 1, Len(@) - 1),
                      !.cursor_y = y,
                      !.cursor_x = Min(e.cursor_x, Len(doc[y + 1])),
                      !.status_msg = "Undo"]
    ELSE e

redo(e) ==
    IF e.redo_stack # <<>>
    THEN LET doc == e.redo_stack[Len(e.redo_stack)]
             y == Min(e.cursor_y, Len(doc) - 1)
         IN [e EXCEPT !.undo_stack = Append(@, e.lines),
                      !.lines = doc,
                      !.redo_stack = SubSeq(@, 1, Len(@) - 1),
                      !.cursor_y = y,
                      !.cursor_x = Min(e.cursor_x, Len(doc[y + 1])),
                      !.status_msg = "Redo"]
    ELSE e


\* ------------------------------------------------------- command dispatch
\* sys.exit(0): SystemExit is not an Exception, nothing catches it
exit(e) == [e EXCEPT !.running = FALSE]

\* the 'e' branch: load_file's exception reaches the handler of line 278
\* after fname has been assigned
edit_file(e, rest) ==
    IF rest # <<>>
    THEN LET named == [e EXCEPT !.fname = rest[1]]
         IN IF load_raises(named)
            THEN [named EXCEPT !.status_msg = "Command error"]
            ELSE [load_file(named) EXCEPT !.cursor_x = 0, !.cursor_y = 0]
    ELSE e

\* the 'saveas' branch
saveas(e, rest) ==
    IF rest # <<>>
    THEN [save_file(e, rest[1]) EXCEPT !.fname = rest[1]]
    ELSE e

\* the 'r' branch
read_file(e, rest) ==
    IF rest # <<>>
    THEN IF CanRead(e.fs, rest[1])
         THEN [e EXCEPT !.lines = @ \o SplitLines(e.fs[rest[1]].data),
                        !.status_msg = "Appended"]
         ELSE [e EXCEPT !.status_msg = "Error reading"]
    ELSE e

\* the 'set' branch
set_option(e, rest) ==
    IF rest # <<>>
    THEN IF rest[1] = <<"s", "y", "n", "t", "a", "x">>
         THEN [e EXCEPT !.syntax_enabled = ~@, !.status_msg = "Syntax"]
         ELSE IF rest[1] = <<"n", "u", "m", "b", "e", "r">>
              THEN [e EXCEPT !.show_line_numbers = ~@,
                             !.status_msg = "Line numbers"]
              ELSE e
    ELSE e

\* the 'replace' branch: unpacking the split raises ValueError, caught at
\* line 264, unless the argument holds a '/'
replace_snapshot_first(e, rest) ==
    IF rest # <<>>
    THEN LET parts == SplitOnce(rest[1], "/")
             snap == push_undo(e)
         IN IF Len(parts) = 2
            THEN [snap EXCEPT
                    !.lines = [i \in 1..Len(e.lines) |->
                                 Replace(e.lines[i], parts[1], parts[2])],
                    !.status_msg = "Replaced"]
            ELSE [snap EXCEPT !.status_msg = "Usage: :replace old/new"]
    ELSE e

replace(e, rest) ==
    IF rest # <<>>
    THEN LET parts == SplitOnce(rest[1], "/")
         IN IF Len(parts) = 2
            THEN [push_undo(e) EXCEPT
                    !.lines = [i \in 1..Len(e.lines) |->
                                 Replace(e.lines[i], parts[1], parts[2])],
                    !.status_msg = "Replaced"]
            ELSE [e EXCEPT !.status_msg = "Usage: :replace old/new"]
    ELSE e

\* the 'new' branch
new_buffer(e) ==
    [push_undo(e) EXCEPT !.lines = <<<<>>>>, !.cursor_x = 0, !.cursor_y = 0,
                         !.fname = None, !.status_msg = "New buffer"]

\* Verbs whose effect is on a collaborator only: the shell ('!'), the media
\* previewer ('open') and the working directory ('pwd', 'cd'); 'help' sets
\* the status text.
CollaboratorVerbs ==
    {<<"!">>, <<"o", "p", "e", "n">>, <<"p", "w", "d">>, <<"c", "d">>,
     <<"h", "e", "l", "p">>}

collaborator(e, c, rest) ==
    IF c = <<"p", "w", "d">> THEN [e EXCEPT !.status_msg = "cwd"]
    ELSE IF c = <<"c", "d">> /\ rest # <<>>
         THEN [e EXCEPT !.status_msg = "Changed dir to"]
    ELSE IF c = <<"h", "e", "l", "p">> THEN [e EXCEPT !.status_msg = "Commands"]
    ELSE e

command_dispatch(e, cmd) ==
    LET args == Split(Strip(cmd))
    IN IF args = <<>>
       THEN e
       ELSE LET c == args[1]
                rest == Tail(args)
            IN CASE c = <<"w">> -> save_file(e, None)
                 [] c = <<"q">> -> exit(e)
                 [] c = <<"q", "!">> -> exit(e)
                 [] c = <<"w", "q">> -> exit(save_file(e, None))
                 [] c = <<"e">> -> edit_file(e, rest)
                 [] c = <<"s", "a", "v", "e", "a", "s">> -> saveas(e, rest)
                 [] c = <<"r">> -> read_file(e, rest)
                 [] c = <<"s", "e", "t">> -> set_option(e, rest)
                 [] c \in CollaboratorVerbs -> collaborator(e, c, rest)
                 [] c = <<"r", "e", "p", "l", "a", "c", "e">> -> replace(e, rest)
                 [] c = <<"u", "n", "d", "o">> -> undo(e)
                 [] c = <<"r", "e", "d", "o">> -> redo(e)
                 [] c = <<"n", "e", "w">> -> new_buffer(e)
                 [] OTHER -> [e EXCEPT !.status_msg = "Unknown command"]

\* ----------------------------------------------------------------- search
\* the first row, from row i (0-based) on, whose line holds term; -1 if none
RECURSIVE FirstRow(_, _, _)
FirstRow(ls, term, i) ==
    IF i >= Len(ls) THEN -1
    ELSE IF Find(ls[i + 1], term) # -1 THEN i
    ELSE FirstRow(ls, term, i + 1)

find_term(e, term) ==
    LET i == FirstRow(e.lines, term, 0)
    IN IF i # -1
       THEN [e EXCEPT !.cursor_y = i,
                      !.cursor_x = Find(e.lines[i + 1], term),
                      !.status_msg = "Found"]
       ELSE [e EXCEPT !.status_msg = "not found"]


\* ----------------------------------------------------------- key handlers
\* the h, j, k, l branches of process_normal and process_visual
move(e, key) ==
    CASE key = "h" ->
            IF e.cursor_x > 0 THEN [e EXCEPT !.cursor_x = @ - 1] ELSE e
      [] key = "l" ->
            IF e.cursor_x < Len(e.lines[e.cursor_y + 1])
            THEN [e EXCEPT !.cursor_x = @ + 1]
            ELSE e
      [] key = "j" ->
            IF e.cursor_y < Len(e.lines) - 1
            THEN [e EXCEPT !.cursor_y = @ + 1,
                           !.cursor_x = Min(@, Len(e.lines[e.cursor_y + 2]))]
            ELSE e
      [] key = "k" ->
            IF e.cursor_y > 0
            THEN [e EXCEPT !.cursor_y = @ - 1,
                           !.cursor_x = Min(@, Len(e.lines[e.cursor_y]))]
            ELSE e

\* The 'p' key hands a word to the media previewer and changes no editor
\* field; it is one of the keys of the last branch here.
process_normal_v_no_anchor(e, key) ==
    CASE key = "i" -> [e EXCEPT !.mode = "INSERT"]
      [] key = "v" -> [e EXCEPT !.mode = "VISUAL"]
      [] key = ":" -> [e EXCEPT !.mode = "CMD", !.cmd_buffer = <<>>]
      [] key = "/" -> [e EXCEPT !.mode = "CMD", !.cmd_buffer = <<"/">>]
      [] key = "u" -> undo(e)
      [] key = "r" -> redo(e)
      [] key \in {"h", "j", "k", "l"} -> move(e, key)
      [] key = ESC -> [e EXCEPT !.mode = "NORMAL", !.vis_start = None]
      [] OTHER -> e

process_normal(e, key) ==
    CASE key = "i" -> [e EXCEPT !.mode = "INSERT"]
      [] key = "v" -> [e EXCEPT !.mode = "VISUAL",
                                !.vis_start = <<e.cursor_y, e.cursor_x>>]
      [] key = ":" -> [e EXCEPT !.mode = "CMD", !.cmd_buffer = <<>>]
      [] key = "/" -> [e EXCEPT !.mode = "CMD", !.cmd_buffer = <<"/">>]
      [] key = "u" -> undo(e)
      [] key = "r" -> redo(e)
      [] key \in {"h", "j", "k", "l"} -> move(e, key)
      [] key = ESC -> [e EXCEPT !.mode = "NORMAL", !.vis_start = None]
      [] OTHER -> e

\* the Enter branch of process_insert
split_line_keep_tail(e) ==
    LET line == e.lines[e.cursor_y + 1]
        snap == push_undo(e)
    IN [snap EXCEPT
          !.lines = SubSeq(e.lines, 1, e.cursor_y)
                    \o <<line, SliceFrom(line, e.cursor_x)>>
                    \o SubSeq(e.lines, e.cursor_y + 2, Len(e.lines)),
          !.cursor_y = @ + 1,
          !.cursor_x = 0]

split_line(e) ==
    LET line == e.lines[e.cursor_y + 1]
        snap == push_undo(e)
    IN [snap EXCEPT
          !.lines = SubSeq(e.lines, 1, e.cursor_y)
                    \o <<Slice(line, 0, e.cursor_x), SliceFrom(line, e.cursor_x)>>
                    \o SubSeq(e.lines, e.cursor_y + 2, Len(e.lines)),
          !.cursor_y = @ + 1,
          !.cursor_x = 0]

\* the Backspace branch of process_insert
backspace_after_cursor(e) ==
    IF e.cursor_x > 0
    THEN LET line == e.lines[e.cursor_y + 1]
         IN [push_undo(e) EXCEPT
               !.lines[e.cursor_y + 1] =
                   Slice(line, 0, e.cursor_x) \o SliceFrom(line, e.cursor_x + 1),
               !.cursor_x = @ - 1]
    ELSE IF e.cursor_y > 0
         THEN LET prev_line_len == Len(e.lines[e.cursor_y])
              IN [push_undo(e) EXCEPT
                    !.lines = SubSeq(e.lines, 1, e.cursor_y - 1)
                              \o <<e.lines[e.cursor_y] \o e.lines[e.cursor_y + 1]>>
                              \o SubSeq(e.lines, e.cursor_y + 2, Len(e.lines)),
                    !.cursor_y = @ - 1,
                    !.cursor_x = prev_line_len]
         ELSE e

backspace(e) ==
    IF e.cursor_x > 0
    THEN LET line == e.lines[e.cursor_y + 1]
         IN [push_undo(e) EXCEPT
               !.lines[e.cursor_y + 1] =
                   Slice(line, 0, e.cursor_x - 1) \o SliceFrom(line, e.cursor_x),
               !.cursor_x = @ - 1]
    ELSE IF e.cursor_y > 0
         THEN LET prev_line_len == Len(e.lines[e.cursor_y])
              IN [push_undo(e) EXCEPT
                    !.lines = SubSeq(e.lines, 1, e.cursor_y - 1)
                              \o <<e.lines[e.cursor_y] \o e.lines[e.cursor_y + 1]>>
                              \o SubSeq(e.lines, e.cursor_y + 2, Len(e.lines)),
                    !.cursor_y = @ - 1,
                    !.cursor_x = prev_line_len]
         ELSE e

\* the last branch of process_insert
insert_char_cursor_stays(e, key) ==
    LET line == e.lines[e.cursor_y + 1]
    IN [push_undo(e) EXCEPT
          !.lines[e.cursor_y + 1] =
              Slice(line, 0, e.cursor_x) \o <<key>> \o SliceFrom(line, e.cursor_x)]

insert_char(e, key) ==
    LET line == e.lines[e.cursor_y + 1]
    IN [push_undo(e) EXCEPT
          !.lines[e.cursor_y + 1] =
              Slice(line, 0, e.cursor_x) \o <<key>> \o SliceFrom(line, e.cursor_x),
          !.cursor_x = @ + 1]

process_insert(e, key) ==
    CASE key = ESC -> [e EXCEPT !.mode = "NORMAL"]
      [] key = NL -> split_line(e)
      [] key \in {KEY_BACKSPACE, DEL} -> backspace(e)
      [] OTHER -> IF IsStr(key) THEN insert_char(e, key) ELSE e

process_visual_enter_stays(e, key) ==
    CASE key = ESC -> [e EXCEPT !.mode = "NORMAL", !.vis_start = None]
      [] key \in {"h", "j", "k", "l"} -> move(e, key)
      [] key = NL -> [e EXCEPT !.vis_start = None]
      [] OTHER -> e

process_visual(e, key) ==
    CASE key = ESC -> [e EXCEPT !.mode = "NORMAL", !.vis_start = None]
      [] key \in {"h", "j", "k", "l"} -> move(e, key)
      [] key = NL -> [e EXCEPT !.mode = "NORMAL", !.vis_start = None]
      [] OTHER -> e

\* the Enter branch of process_cmd; sys.exit leaves it before lines 404-405
enter_cmd_keeps_buffer(e) ==
    LET cmd == Strip(e.cmd_buffer)
        done == IF StartsWith(cmd, <<"/">>)
                THEN find_term(e, Tail(cmd))
                ELSE command_dispatch(e, cmd)
    IN IF done.running
       THEN [done EXCEPT !.mode = "NORMAL"]
       ELSE done

enter_cmd(e) ==
    LET cmd == Strip(e.cmd_buffer)
        done == IF StartsWith(cmd, <<"/">>)
                THEN find_term(e, Tail(cmd))
                ELSE command_dispatch(e, cmd)
    IN IF done.running
       THEN [done EXCEPT !.cmd_buffer = <<>>, !.mode = "NORMAL"]
       ELSE done

process_cmd_esc_dispatches(e, key) ==
    CASE key \in {NL, ESC} -> enter_cmd(e)
      [] OTHER ->
            IF IsStr(key)
            THEN [e EXCEPT !.cmd_buffer = Append(@, key)]
            ELSE IF key = KEY_BACKSPACE \/ key = DEL
                 THEN [e EXCEPT !.cmd_buffer = SubSeq(@, 1, Len(@) - 1)]
                 ELSE e

process_cmd(e, key) ==
    CASE key = NL -> enter_cmd(e)
      [] key = ESC -> [e EXCEPT !.cmd_buffer = <<>>, !.mode = "NORMAL"]
      [] OTHER ->
            IF IsStr(key)
            THEN [e EXCEPT !.cmd_buffer = Append(@, key)]
            ELSE IF key = KEY_BACKSPACE \/ key = DEL
                 THEN [e EXCEPT !.cmd_buffer = SubSeq(@, 1, Len(@) - 1)]
                 ELSE e


\* ------------------------------------------------------------ environment
\* the paths the commands name
PathF == <<"f">>
PathG == <<"g">>

\* The file systems in which g is a file that cannot be opened and f is a
\* regular file holding one of the contents or, if allowed, absent.
Files(contents, fAbsent) ==
    {[p \in {PathF, PathG} |->
        IF p = PathF THEN [kind |-> "file", data |-> d]
                     ELSE [kind |-> "denied", data |-> <<>>]] : d \in contents}
    \cup
    (IF fAbsent
     THEN {[p \in {PathG} |-> [kind |-> "denied", data |-> <<>>]]}
     ELSE {})

\* the keys pressed in each mode
NormalKeys == {"i", "v", ":", "/", "u", "r", "h", "j", "k", "l", "p", ESC}
InsertKeys == {"a", NL, KEY_BACKSPACE, DEL, ESC}
VisualKeys == {"h", "j", "k", "l", "x", NL, ESC}

\* the command lines typed in CMD mode, key by key; Enter may be pressed at
\* any point, so every prefix of a text is dispatched too
CmdTexts ==
    {<<"e", " ", "f">>,
     <<"r", " ", "f">>,
     <<"r", "e", "p", "l", "a", "c", "e", " ", "a", "/">>,
     <<"n", "e", "w">>,
     <<"q">>}

\* the keys that extend the buffer towards one of the texts
TypedKeys(buf, texts) ==
    {t[Len(buf) + 1] : t \in {u \in texts : Len(u) > Len(buf) /\ IsPrefix(buf, u)}}

\* the number of lines of a document plus the number of its characters
RECURSIVE Size(_)
Size(doc) == IF doc = <<>> THEN 0 ELSE 1 + Len(doc[1]) + Size(Tail(doc))

Bounded(maxSize, maxHist) ==
    /\ Size(lines) <= maxSize
    /\ Len(undo_stack) + Len(redo_stack) <= maxHist

\* --------------------------------------------------------- history record
\* the kind of operation a key starts in the current state
Verb(buf) ==
    LET args == Split(Strip(buf)) IN IF args = <<>> THEN <<>> ELSE args[1]

IsSearch(buf) == StartsWith(Strip(buf), <<"/">>)

OpKind(key) ==
    CASE mode = "NORMAL" /\ key = "u" -> "undo"
      [] mode = "NORMAL" /\ key = "r" -> "redo"
      [] mode = "INSERT" /\ key # ESC -> "edit"
      [] mode = "CMD" /\ key = NL /\ ~IsSearch(cmd_buffer) ->
            CASE Verb(cmd_buffer) = <<"u", "n", "d", "o">> -> "undo"
              [] Verb(cmd_buffer) = <<"r", "e", "d", "o">> -> "redo"
              [] Verb(cmd_buffer) \in {<<"r", "e", "p", "l", "a", "c", "e">>,
                                       <<"r">>, <<"n", "e", "w">>} -> "edit"
              [] Verb(cmd_buffer) = <<"e">> -> "load"
              [] OTHER -> "other"
      [] OTHER -> "other"

\* The history variables record a session for the round-trip laws; they are
\* not recorded ("off", or "steps" where the steps are recorded instead)
\* where no law needs them.
\* session: "mutating" while only edits have happened since construction and
\* no snapshot was evicted, "undoing" once undos follow them, else "void".
\* rt_phase: "undoing" during a run of undos, "redoing" during the run of
\* redos that follows a run of undos that emptied the undo stack.
Record(kind) ==
    IF session \in {"off", "steps"}
    THEN UNCHANGED histvars
    ELSE
    /\ base_doc' = base_doc
    /\ session' =
         CASE kind = "edit" ->
                IF session = "mutating" /\ Len(undo_stack) < HistoryLimit
                THEN "mutating" ELSE "void"
           [] kind = "undo" ->
                IF session \in {"mutating", "undoing"} THEN "undoing" ELSE "void"
           [] kind \in {"redo", "load"} -> "void"
           [] OTHER -> session
    /\ rt_phase' =
         CASE kind \in {"edit", "load"} -> "none"
           [] kind = "undo" /\ undo_stack # <<>> -> "undoing"
           [] kind = "redo" /\ redo_stack # <<>> ->
                IF rt_phase = "redoing" \/ (rt_phase = "undoing" /\ undo_stack = <<>>)
                THEN "redoing" ELSE "none"
           [] OTHER -> rt_phase
    /\ rt_latest' =
         CASE kind \in {"edit", "load"} -> None
           [] kind = "undo" /\ undo_stack # <<>> ->
                IF rt_phase = "undoing" THEN rt_latest ELSE lines
           [] kind = "redo" /\ redo_stack # <<>> ->
                IF rt_phase = "redoing" \/ (rt_phase = "undoing" /\ undo_stack = <<>>)
                THEN rt_latest ELSE None
           [] OTHER -> rt_latest

\* ----------------------------------------------------------- steps record
\* Recorded only in a session that starts as "steps".
\* trail: for each of the last two keys, the key and the mode, document,
\* cursor and command buffer it met.
\* typing: "open" from an 'i' pressed in NORMAL mode while only printable
\* characters follow it, "closed" in the state the Esc that ends them leaves.
\* saved: the path and the document of the last successful save, "reloaded"
\* in the state a following :e of that path leaves.
NoTyping == [state |-> "none", lines |-> <<>>, y |-> 0, x |-> 0, typed |-> <<>>]

NoSave == [state |-> "none", path |-> None, lines |-> <<>>]

\* a key process_insert inserts as a character
Printable(key) == IsStr(key) /\ key \notin {ESC, NL, DEL}

LastTwo(s) == IF Len(s) > 2 THEN Tail(s) ELSE s

\* this step is Enter in CMD mode on a colon-command that saves
Saves(key) ==
    /\ mode = "CMD" /\ key = NL /\ ~IsSearch(cmd_buffer)
    /\ Verb(cmd_buffer) \in {<<"w">>, <<"w", "q">>, <<"s", "a", "v", "e", "a", "s">>}

\* this step is Enter in CMD mode on ':e path'
Edits(key, path) ==
    /\ mode = "CMD" /\ key = NL /\ ~IsSearch(cmd_buffer)
    /\ Verb(cmd_buffer) = <<"e">>
    /\ Len(Split(Strip(cmd_buffer))) > 1
    /\ Split(Strip(cmd_buffer))[2] = path

Trace(key) ==
    IF session # "steps"
    THEN UNCHANGED stepvars
    ELSE
    /\ trail' = LastTwo(Append(trail,
                    [key |-> key, mode |-> mode, lines |-> lines,
                     y |-> cursor_y, x |-> cursor_x, buf |-> cmd_buffer]))
    /\ typing' =
         CASE mode = "NORMAL" /\ key = "i" ->
                [state |-> "open", lines |-> lines, y |-> cursor_y,
                 x |-> cursor_x, typed |-> <<>>]
           [] mode = "INSERT" /\ typing.state = "open" /\ key = ESC ->
                [typing EXCEPT !.state = "closed"]
           [] mode = "INSERT" /\ typing.state = "open" /\ Printable(key) ->
                [typing EXCEPT !.typed = Append(@, key)]
           [] OTHER -> NoTyping
    /\ saved' =
         CASE Saves(key) /\ status_msg' = "Saved to" ->
                [state |-> "saved", path |-> fname', lines |-> lines]
           [] saved.state # "none" /\ Edits(key, saved.path)
              /\ status_msg' # "Command error" ->
                [saved EXCEPT !.state = "reloaded"]
           [] saved.state = "reloaded" -> [saved EXCEPT !.state = "saved"]
           [] OTHER -> saved

\* ---------------------------------------------------------------- actions
\* Editor.__init__: NORMAL mode, the file named on the command line loaded
Construct(files, fnames, recording) ==
    /\ fs \in files
    /\ fname \in fnames
    /\ lines = load_file([fname |-> fname, fs |-> fs, lines |-> <<<<>>>>]).lines
    /\ mode = "NORMAL"
    /\ cursor_y = 0
    /\ cursor_x = 0
    /\ vis_start = None
    /\ cmd_buffer = <<>>
    /\ syntax_enabled = TRUE
    /\ show_line_numbers = TRUE
    /\ undo_stack = <<>>
    /\ redo_stack = <<>>
    /\ status_msg = ""
    /\ running = TRUE
    /\ base_doc = lines
    /\ session = recording
    /\ rt_phase = "none"
    /\ rt_latest = None
    /\ trail = <<>>
    /\ typing = NoTyping
    /\ saved = NoSave

\* one iteration of run() in each mode
NormalStep(keys) ==
    /\ running /\ mode = "NORMAL"
    /\ \E key \in keys : Set(process_normal(Ed, key)) /\ Record(OpKind(key)) /\ Trace(key)

InsertStep(keys) ==
    /\ running /\ mode = "INSERT"
    /\ \E key \in keys : Set(process_insert(Ed, key)) /\ Record(OpKind(key)) /\ Trace(key)

VisualStep(keys) ==
    /\ running /\ mode = "VISUAL"
    /\ \E key \in keys : Set(process_visual(Ed, key)) /\ Record(OpKind(key)) /\ Trace(key)

CmdStep(texts) ==
    /\ running /\ mode = "CMD"
    /\ \E key \in TypedKeys(cmd_buffer, texts) \cup {NL, ESC, KEY_BACKSPACE} :
          Set(process_cmd(Ed, key)) /\ Record(OpKind(key)) /\ Trace(key)

\* CMD mode where the keys of `keys` are pressed at any point, as long as
\* the buffer is the beginning of a text plus at most one more key
CmdKeysStep(texts, keys) ==
    /\ running /\ mode = "CMD"
    /\ \E key \in TypedKeys(cmd_buffer, texts) \cup keys :
          Set(process_cmd(Ed, key)) /\ Record(OpKind(key)) /\ Trace(key)
    /\ \E t \in texts :
          IsPrefix(SubSeq(cmd_buffer', 1, Len(cmd_buffer') - 1), t)

\* run() hands the key to the handler of the mode
handle(e, key) ==
    CASE e.mode = "NORMAL" -> process_normal(e, key)
      [] e.mode = "INSERT" -> process_insert(e, key)
      [] e.mode = "VISUAL" -> process_visual(e, key)
      [] e.mode = "CMD" -> process_cmd(e, key)

\* ------------------------------------------- the editor, every mode and key
InBounds == Bounded(MaxSize, MaxHist)

Init == Construct(Files({<<>>, <<NL>>}, TRUE), {None, PathF}, "off")

KeyNormal == NormalStep(NormalKeys) /\ InBounds'
KeyInsert == InsertStep(InsertKeys) /\ InBounds'
KeyVisual == VisualStep(VisualKeys) /\ InBounds'
KeyCmd == CmdStep(CmdTexts) /\ InBounds'

Next == KeyNormal \/ KeyInsert \/ KeyVisual \/ KeyCmd

Spec == Init /\ [][Next]_vars


\* ------------------------------------ editing, undo and redo, recorded
\* documents one line or character larger than in Spec, to hold what :r
\* appends to a document that is not empty
WideBounds == Bounded(MaxSize + 1, MaxHist)

RTInit == Construct(Files({<<"a">>}, FALSE), {None}, "mutating")

RTKeyNormal == NormalStep({"i", ":", "u", "r"}) /\ WideBounds'
RTKeyInsert == InsertStep({"a", NL, KEY_BACKSPACE, ESC}) /\ WideBounds'
RTKeyCmd == CmdStep({<<"r", " ", "f">>, <<"n", "e", "w">>,
                     <<"u", "n", "d", "o">>, <<"r", "e", "d", "o">>}) /\ WideBounds'

RTNext == RTKeyNormal \/ RTKeyInsert \/ RTKeyCmd

SpecRoundTrip == RTInit /\ [][RTNext]_vars

\* ------------------------------------------- typing and undoing, at length
\* a document of one line of at most one character; the stacks may grow one
\* past the limit push_undo keeps
HistBounds == Bounded(2, HistoryLimit + 1)

HistInit == Construct(Files({<<"a">>}, FALSE), {None}, "off")

HistKeyNormal == NormalStep({"i", "u"}) /\ HistBounds'
HistKeyInsert == InsertStep({"a", ESC}) /\ HistBounds'

HistNext == HistKeyNormal \/ HistKeyInsert

SpecHistory == HistInit /\ [][HistNext]_vars

\* ----------------------------------------------- reading and writing files
IOInit == Construct(Files({<<"a">>}, FALSE), {None, PathF}, "off")

IOTexts ==
    {<<"w">>,
     <<"s", "a", "v", "e", "a", "s", " ", "f">>,
     <<"s", "a", "v", "e", "a", "s", " ", "g">>,
     <<"e", " ", "f">>,
     <<"e", " ", "g">>,
     <<"r", " ", "f">>,
     <<"r", " ", "g">>}

IOKeyNormal == NormalStep({"i", ":", "u"}) /\ WideBounds'
IOKeyInsert == InsertStep({"a", KEY_BACKSPACE, ESC}) /\ WideBounds'
IOKeyCmd == CmdStep(IOTexts) /\ WideBounds'

IONext == IOKeyNormal \/ IOKeyInsert \/ IOKeyCmd

SpecIO == IOInit /\ [][IONext]_vars

\* ------------------------------------------------------ searching a file
SearchFiles ==
    Files({<<"b", "a", NL, "a", " ">>, <<"a", "b">>, <<" ", "b">>,
           <<"a", NL, NL, "b">>, <<>>}, FALSE)

SearchTexts ==
    {<<"/", "a", " ">>,
     <<"/", "b">>,
     <<"/", " ">>,
     <<"/", "a", "b">>}

SearchInit == Construct(SearchFiles, {PathF}, "off")

SearchKeyNormal == NormalStep({"/", ":", "h", "j", "k", "l"})
SearchKeyCmd == CmdStep(SearchTexts)

SearchNext == SearchKeyNormal \/ SearchKeyCmd

SpecSearch == SearchInit /\ [][SearchNext]_vars

\* ------------------------------------------- typing, with the steps recorded
\* documents of two more lines or characters than in Spec: two typed
\* characters in a line that has one, a split in a line that has two
TypingBounds == Bounded(MaxSize + 2, MaxHist)

TypingFiles ==
    Files({<<>>, <<"b">>, <<"b", "b">>, <<"b", NL, "b">>}, FALSE)

\* ':replace b/' empties lines under the cursor
TypingTexts == {<<"r", "e", "p", "l", "a", "c", "e", " ", "b", "/">>}

TypingInit == Construct(TypingFiles, {PathF}, "steps")

TypingKeyNormal == NormalStep({"i", ":", "h", "j", "k", "l"}) /\ TypingBounds'
TypingKeyInsert ==
    InsertStep({"a", NL, KEY_BACKSPACE, DEL, ESC}) /\ TypingBounds'
TypingKeyCmd == CmdKeysStep(TypingTexts, {NL}) /\ TypingBounds'

TypingNext == TypingKeyNormal \/ TypingKeyInsert \/ TypingKeyCmd

SpecTyping == TypingInit /\ [][TypingNext]_vars

\* ------------------------------------ saving and reloading what was typed
SaveLoadInit == Construct(Files({<<>>, <<"b">>}, TRUE), {PathF}, "steps")

SaveLoadTexts == {<<"w">>, <<"e", " ", "f">>}

SaveLoadKeyNormal == NormalStep({"i", ":"}) /\ WideBounds'
SaveLoadKeyInsert == InsertStep({"a", NL, ESC}) /\ WideBounds'
SaveLoadKeyCmd == CmdStep(SaveLoadTexts) /\ WideBounds'

SaveLoadNext == SaveLoadKeyNormal \/ SaveLoadKeyInsert \/ SaveLoadKeyCmd

SpecSaveLoad == SaveLoadInit /\ [][SaveLoadNext]_vars

\* --------------------------------------- every key in every mode, one file
KeysTexts == {<<"n", "e", "w">>, <<"q">>, <<"/", "a">>}

CmdKeys == {NL, ESC, KEY_BACKSPACE, DEL}

KeysInit == Construct(Files({<<"a">>}, FALSE), {PathF}, "off")

KeysNormal == NormalStep(NormalKeys) /\ WideBounds'
KeysInsert == InsertStep(InsertKeys) /\ WideBounds'
KeysVisual == VisualStep(VisualKeys) /\ WideBounds'
KeysCmd == CmdKeysStep(KeysTexts, CmdKeys) /\ WideBounds'

KeysNext == KeysNormal \/ KeysInsert \/ KeysVisual \/ KeysCmd

SpecKeys == KeysInit /\ [][KeysNext]_vars

\* ------------------------------------- command entry, with the steps recorded
CommandTexts ==
    {<<"r", "e", "p", "l", "a", "c", "e", " ", "a", "/", "b">>,
     <<"n", "e", "w">>,
     <<"/", "a">>}

CommandInit == Construct(Files({<<"b", "a">>}, FALSE), {PathF}, "steps")

CommandKeyNormal == NormalStep({":", "/"}) /\ WideBounds'
CommandKeyCmd == CmdKeysStep(CommandTexts, CmdKeys) /\ WideBounds'

CommandNext == CommandKeyNormal \/ CommandKeyCmd

SpecCommand == CommandInit /\ [][CommandNext]_vars

\* ----------------------------------------------------- claims: vocabulary
\* the verbs command_dispatch knows
KnownVerbs ==
    {<<"w">>, <<"q">>, <<"q", "!">>, <<"w", "q">>, <<"e">>,
     <<"s", "a", "v", "e", "a", "s">>, <<"r">>, <<"s", "e", "t">>,
     <<"r", "e", "p", "l", "a", "c", "e">>, <<"u", "n", "d", "o">>,
     <<"r", "e", "d", "o">>, <<"n", "e", "w">>} \cup CollaboratorVerbs

Args(buf) == Split(Strip(buf))

\* this step is Enter in CMD mode on a buffer that is a colon-command
Dispatches ==
    /\ running /\ mode = "CMD" /\ ~IsSearch(cmd_buffer)
    /\ Args(cmd_buffer) # <<>>
    /\ Set(process_cmd(Ed, NL))

\* this step is Enter in CMD mode on a colon-command with one of the verbs
DispatchesVerb(verbs) == Dispatches /\ Verb(cmd_buffer) \in verbs

\* this step is a key of INSERT mode other than Esc
InsertEdits ==
    /\ running /\ mode = "INSERT"
    /\ \E key \in InsertKeys \ {ESC} : Set(process_insert(Ed, key))

\* the undo stack after one snapshot of the current document is pushed
Snapshotted ==
    IF Len(undo_stack) < HistoryLimit
    THEN Append(undo_stack, lines)
    ELSE Append(Tail(undo_stack), lines)

\* ------------------------------------------------------------------ C1
\* C1: in every reachable state 0 <= cursor_y < len(lines) and
\* 0 <= cursor_x <= len(lines[cursor_y]).
CursorInvariant ==
    /\ cursor_y >= 0 /\ cursor_y < Len(lines)
    /\ cursor_x >= 0 /\ cursor_x <= Len(lines[cursor_y + 1])

\* ------------------------------------------------------------------ C2
\* C2: a mutating edit that is not an undo or redo (character insert, Enter,
\* Backspace, :replace, :new) leaves the redo stack empty.
EditClearsRedo ==
    [][((InsertEdits \/ DispatchesVerb({<<"r", "e", "p", "l", "a", "c", "e">>,
                                        <<"n", "e", "w">>}))
        /\ lines' # lines)
       => redo_stack' = <<>>]_vars

\* ------------------------------------------------------------------ C6
\* C6: a step that changes the document and is a character insert, Enter,
\* Backspace, :replace, :r or :new pushes exactly one snapshot, the document
\* as it was before the step, onto the undo stack.
SnapshotBeforeMutate ==
    [][((InsertEdits \/ DispatchesVerb({<<"r", "e", "p", "l", "a", "c", "e">>,
                                        <<"r">>, <<"n", "e", "w">>}))
        /\ lines' # lines)
       => undo_stack' = Snapshotted]_vars

\* ------------------------------------------------------------------ C7
\* C7: the document has at least one line in every reachable state, and so
\* has every snapshot on the undo and the redo stack.
DocumentNonEmpty ==
    /\ Len(lines) >= 1
    /\ \A i \in 1..Len(undo_stack) : Len(undo_stack[i]) >= 1
    /\ \A i \in 1..Len(redo_stack) : Len(redo_stack[i]) >= 1

\* the document of the empty file f is one empty line, and a two-line
\* snapshot is on the redo stack
EmptyFileLoaded ==
    /\ fname = PathF /\ FileKind(fs, PathF) = "file" /\ fs[PathF].data = <<>>
    /\ lines = <<<<>>>>
    /\ redo_stack # <<>> /\ Len(redo_stack[1]) = 2
    /\ mode = "NORMAL"

\* ------------------------------------------------------------------ C8
\* C8: dispatching a colon-command with an unknown verb, or a :replace whose
\* argument has no '/', leaves document, cursor, filename and both stacks
\* unchanged, sets the status message and returns to NORMAL mode.
InvalidCmd(buf) ==
    \/ Verb(buf) \notin KnownVerbs
    \/ /\ Verb(buf) = <<"r", "e", "p", "l", "a", "c", "e">>
       /\ Len(Args(buf)) > 1
       /\ \A i \in 1..Len(Args(buf)[2]) : Args(buf)[2][i] # "/"

InvalidCommandNoChange ==
    [][(Dispatches /\ InvalidCmd(cmd_buffer))
       => /\ UNCHANGED <<lines, cursor_y, cursor_x, fname, undo_stack, redo_stack>>
          /\ status_msg' \in {"Unknown command", "Usage: :replace old/new"}
          /\ mode' = "NORMAL"]_vars

\* a :replace without '/' has been dispatched on an edited document
MalformedReplaceDispatched ==
    /\ status_msg = "Usage: :replace old/new"
    /\ undo_stack # <<>>
    /\ lines # <<<<>>>>


\* ------------------------------------------------------------------ C3
\* C3: the undo stack and the redo stack each hold at most 100 snapshots.
HistoryBounded ==
    /\ Len(undo_stack) <= HistoryLimit
    /\ Len(redo_stack) <= HistoryLimit

\* ------------------------------------------------------------------ C4
\* C4: from an empty history, after mutating operations that take at most
\* 100 history steps, undo repeated until the undo stack is empty leaves the
\* document equal to its content before the first mutation.
UndoRoundTrip ==
    (session = "undoing" /\ undo_stack = <<>>) => lines = base_doc

\* ------------------------------------------------------------------ C5
\* C5: after undo has emptied the undo stack, redo repeated until the redo
\* stack is empty leaves the document equal to its content just before the
\* undos began.
RedoRoundTrip ==
    (rt_phase = "redoing" /\ redo_stack = <<>>) => lines = rt_latest

\* ------------------------------------------------------------------ C9
\* C9: when the file access of :w, :saveas, :e or :r fails, document,
\* cursor, filename and both stacks are unchanged, a status message is set
\* and the editor keeps running in NORMAL mode.
FileAccessFails ==
    LET a == Args(cmd_buffer)
    IN \/ a[1] = <<"w">> /\ fname # None /\ ~CanWrite(fs, fname)
       \/ a[1] = <<"s", "a", "v", "e", "a", "s">> /\ Len(a) > 1
            /\ ~CanWrite(fs, a[2])
       \/ a[1] = <<"e">> /\ Len(a) > 1
            /\ IsFile(fs, a[2]) /\ ~CanRead(fs, a[2])
       \/ a[1] = <<"r">> /\ Len(a) > 1 /\ ~CanRead(fs, a[2])

IOFailureAborts ==
    [][(Dispatches /\ FileAccessFails)
       => /\ UNCHANGED <<lines, cursor_y, cursor_x, fname, undo_stack, redo_stack>>
          /\ status_msg' # ""
          /\ mode' = "NORMAL"
          /\ running']_vars

\* ------------------------------------------------------------------ C10
\* C10: a search '/term' + Enter puts the cursor on the first occurrence of
\* term in the first row that holds it, leaves the cursor unchanged if no
\* row holds it, puts it at (0,0) for the empty term, and changes neither
\* the document nor the stacks.
Occurs(l, term, c) ==
    c + Len(term) <= Len(l) /\ SubSeq(l, c + 1, c + Len(term)) = term

ColsWith(l, term) == {c \in 0..Len(l) : Occurs(l, term, c)}

RowsWith(term) == {r \in 0..(Len(lines) - 1) : ColsWith(lines[r + 1], term) # {}}

Least(S) == CHOOSE m \in S : \A n \in S : m <= n

SearchResult ==
    [][(/\ running /\ mode = "CMD"
        /\ cmd_buffer # <<>> /\ cmd_buffer[1] = "/"
        /\ Set(process_cmd(Ed, NL)))
       => LET term == Tail(cmd_buffer)
          IN /\ IF RowsWith(term) = {}
                THEN UNCHANGED <<cursor_y, cursor_x>>
                ELSE /\ cursor_y' = Least(RowsWith(term))
                     /\ cursor_x' = Least(ColsWith(lines[cursor_y' + 1], term))
             /\ term = <<>> => (cursor_y' = 0 /\ cursor_x' = 0)
             /\ UNCHANGED <<lines, undo_stack, redo_stack>>]_vars

\* ------------------------------------------------------------------ C11
\* the state a recorded step met has its cursor inside the document
InBoundsAt(t) ==
    /\ t.y >= 0 /\ t.y < Len(t.lines)
    /\ t.x >= 0 /\ t.x <= Len(t.lines[t.y + 1])

\* the last two keys were pressed in INSERT mode, the first of them with the
\* cursor in bounds
InsertPair ==
    /\ Len(trail) = 2
    /\ trail[1].mode = "INSERT" /\ trail[2].mode = "INSERT"
    /\ InBoundsAt(trail[1])

\* C11: in INSERT mode with the cursor in bounds, typing one character and
\* then pressing Backspace (either backspace key) leaves the document and
\* the cursor as they were before the character.
InsertDeleteInverse ==
    (/\ InsertPair
     /\ Printable(trail[1].key)
     /\ trail[2].key \in {KEY_BACKSPACE, DEL})
    => /\ lines = trail[1].lines
       /\ cursor_y = trail[1].y
       /\ cursor_x = trail[1].x

\* a character was typed in the middle of a line and deleted again
TypedThenDeleted ==
    /\ InsertPair
    /\ Printable(trail[1].key) /\ trail[2].key = KEY_BACKSPACE
    /\ trail[1].x > 0 /\ trail[1].x < Len(trail[1].lines[trail[1].y + 1])
    /\ trail[2].lines # trail[1].lines

\* ------------------------------------------------------------------ C12
\* C12: in INSERT mode with the cursor in bounds at (row, col), Enter splits
\* the line at col and puts the cursor at (row+1, 0); a Backspace right
\* after it restores the document and puts the cursor at (row, col); any
\* Backspace at (row > 0, 0) joins the line to the previous one and puts
\* the cursor at (row-1, length of the previous line before the join).
SplitJoinRoundTrip ==
    /\ (/\ Len(trail) >= 1
        /\ trail[Len(trail)].mode = "INSERT" /\ trail[Len(trail)].key = NL
        /\ InBoundsAt(trail[Len(trail)]))
       => LET t == trail[Len(trail)]
          IN /\ cursor_y = t.y + 1 /\ cursor_x = 0
             /\ Len(lines) = Len(t.lines) + 1
             /\ Len(lines[t.y + 1]) = t.x
             /\ lines[t.y + 1] \o lines[t.y + 2] = t.lines[t.y + 1]
             /\ \A i \in 1..Len(t.lines) :
                   i # t.y + 1 => lines[IF i <= t.y THEN i ELSE i + 1] = t.lines[i]
    /\ (/\ InsertPair
        /\ trail[1].key = NL
        /\ trail[2].key \in {KEY_BACKSPACE, DEL})
       => /\ lines = trail[1].lines
          /\ cursor_y = trail[1].y
          /\ cursor_x = trail[1].x
    /\ (/\ Len(trail) >= 1
        /\ trail[Len(trail)].mode = "INSERT"
        /\ trail[Len(trail)].key \in {KEY_BACKSPACE, DEL}
        /\ trail[Len(trail)].y > 0 /\ trail[Len(trail)].x = 0
        /\ InBoundsAt(trail[Len(trail)]))
       => LET t == trail[Len(trail)]
          IN /\ cursor_y = t.y - 1
             /\ cursor_x = Len(t.lines[t.y])
             /\ Len(lines) = Len(t.lines) - 1
             /\ lines[t.y] = t.lines[t.y] \o t.lines[t.y + 1]

\* a line was split in its middle and joined again
SplitThenJoined ==
    /\ InsertPair
    /\ trail[1].key = NL /\ trail[2].key = KEY_BACKSPACE
    /\ trail[1].x > 0 /\ trail[1].x < Len(trail[1].lines[trail[1].y + 1])
    /\ Len(trail[2].lines) = Len(trail[1].lines) + 1

\* ------------------------------------------------------------------ C15
\* C15: 'i' pressed in NORMAL mode at (r, c), then k printable characters,
\* then Esc: line r holds the characters, in typing order, at column c (a
\* column past the end of the line is its end, as in a slice), the other
\* lines are unchanged, the mode is NORMAL and the cursor is (r, c+k), where
\* the Esc found it.
InsertSession ==
    typing.state = "closed"
    => LET line == typing.lines[typing.y + 1]
       IN /\ mode = "NORMAL"
          /\ cursor_y = typing.y
          /\ cursor_x = typing.x + Len(typing.typed)
          /\ lines = [typing.lines EXCEPT ![typing.y + 1] =
                         Slice(line, 0, typing.x) \o typing.typed
                         \o SliceFrom(line, typing.x)]
          /\ trail[Len(trail)].key = ESC
          /\ trail[Len(trail)].y = cursor_y /\ trail[Len(trail)].x = cursor_x

\* two characters were typed in the middle of a line, then Esc
TypedTwoThenEsc ==
    /\ typing.state = "closed"
    /\ Len(typing.typed) = 2
    /\ typing.x > 0 /\ typing.lines[typing.y + 1] # <<>>

\* ------------------------------------------------------------------ C13
\* C13: a document saved to a path and then loaded from the same path has
\* the lines it had when it was saved.
SaveLoadRoundTrip ==
    saved.state = "reloaded" => lines = saved.lines

\* ------------------------------------------------------------------ C14
\* C14: after :e <path> loads a file both history stacks are empty; a save
\* (:w, :saveas) leaves both stacks unchanged.
HistoryResetOnLoad ==
    [][/\ (/\ DispatchesVerb({<<"e">>})
           /\ Len(Args(cmd_buffer)) > 1
           /\ CanRead(fs, Args(cmd_buffer)[2]))
          => (undo_stack' = <<>> /\ redo_stack' = <<>>)
       /\ DispatchesVerb({<<"w">>, <<"s", "a", "v", "e", "a", "s">>})
          => UNCHANGED <<undo_stack, redo_stack>>]_vars

\* ------------------------------------------------------------------ C16
\* every key the model presses
AllKeys ==
    NormalKeys \cup InsertKeys \cup VisualKeys \cup CmdKeys
    \cup UNION {{t[i] : i \in 1..Len(t)} : t \in KeysTexts}

\* this step is run() handling the key
Pressed(key) == running /\ Set(handle(Ed, key))

\* the edges of the claim
Edge(m, key) ==
    CASE key = ESC -> "NORMAL"
      [] m = "NORMAL" /\ key = "i" -> "INSERT"
      [] m = "NORMAL" /\ key = "v" -> "VISUAL"
      [] m = "NORMAL" /\ key \in {":", "/"} -> "CMD"
      [] m \in {"VISUAL", "CMD"} /\ key = NL -> "NORMAL"
      [] OTHER -> m

\* C16: the mode starts as NORMAL; a key changes it only along the edges
\* NORMAL -i-> INSERT, NORMAL -v-> VISUAL, NORMAL -: or /-> CMD,
\* INSERT -Esc-> NORMAL, VISUAL and CMD -Esc or Enter-> NORMAL; every other
\* key leaves it unchanged and Esc always leaves NORMAL.  (An Enter in CMD
\* mode that ends the program leaves no mode to observe.)
ModeTransitions ==
    /\ mode = "NORMAL"
    /\ [][\A key \in AllKeys :
            Pressed(key) => (mode' = Edge(mode, key) \/ ~running')]_vars

\* VISUAL mode entered after CMD mode (':new' dispatched) and INSERT mode
\* (an 'a' typed into the new buffer) were entered and left
ModesVisited ==
    /\ mode = "VISUAL"
    /\ fname = None
    /\ lines = <<<<"a">>>>

\* ------------------------------------------------------------------ C17
\* C17: Esc in CMD mode, whatever the buffer holds, returns to NORMAL with
\* an empty buffer and leaves document, cursor, filename and both stacks
\* unchanged.
EscDiscardsEntry ==
    [][(running /\ mode = "CMD" /\ Set(process_cmd(Ed, ESC)))
       => /\ mode' = "NORMAL"
          /\ cmd_buffer' = <<>>
          /\ UNCHANGED <<lines, cursor_y, cursor_x, fname,
                         undo_stack, redo_stack>>]_vars

\* Esc was pressed on the complete ':replace a/b' over a document with an
\* 'a' in it, after a search had moved the cursor
EscapedReplace ==
    /\ Len(trail) >= 1
    /\ trail[Len(trail)].mode = "CMD" /\ trail[Len(trail)].key = ESC
    /\ trail[Len(trail)].buf = <<"r", "e", "p", "l", "a", "c", "e", " ", "a", "/", "b">>
    /\ lines = <<<<"b", "a">>>>
    /\ cursor_x = 1

\* ------------------------------------------------------------------ C18
\* C18: outside CMD mode the command buffer is empty; ':' enters CMD mode
\* with the buffer '' and '/' with the buffer '/'; leaving CMD mode by Enter
\* or Esc empties it.
BufferOwnership ==
    /\ [](mode # "CMD" => cmd_buffer = <<>>)
    /\ [][/\ (mode = "NORMAL" /\ Pressed(":")) => cmd_buffer' = <<>>
          /\ (mode = "NORMAL" /\ Pressed("/")) => cmd_buffer' = <<"/">>
          /\ (mode = "CMD" /\ mode' # "CMD") => cmd_buffer' = <<>>]_vars

\* ':new' was dispatched and INSERT mode entered after it
LeftCommandByEnter ==
    /\ mode = "INSERT"
    /\ cmd_buffer = <<>>
    /\ fname = None

\* ------------------------------------------------------------------ C19
\* C19: vis_start is set exactly in VISUAL mode; 'v' sets it to the cursor
\* position and no key of VISUAL mode changes it before the mode is left;
\* no key handled in VISUAL mode changes the document or a history stack.
SelectionLifetime ==
    /\ [](vis_start # None <=> mode = "VISUAL")
    /\ [][/\ (mode = "NORMAL" /\ Pressed("v"))
             => vis_start' = <<cursor_y, cursor_x>>
          /\ (mode = "VISUAL" /\ mode' = "VISUAL") => vis_start' = vis_start
          /\ mode = "VISUAL" => UNCHANGED <<lines, undo_stack, redo_stack>>]_vars

\* the cursor has left the anchor in VISUAL mode, over an edited document
SelectionExtended ==
    /\ mode = "VISUAL"
    /\ vis_start # <<cursor_y, cursor_x>>
    /\ undo_stack # <<>>

\* ------------------------------------------------------------------ C20
\* C20: either backspace key (KEY_BACKSPACE, '\x7f') in CMD mode removes the
\* last character of the command buffer, does nothing to an empty buffer,
\* and never appends to it.
CmdBackspace ==
    [][\A key \in {KEY_BACKSPACE, DEL} :
         (running /\ mode = "CMD" /\ Set(process_cmd(Ed, key)))
         => cmd_buffer' = SubSeq(cmd_buffer, 1, Len(cmd_buffer) - 1)]_vars

====
